---- MODULE Spec2Model ----
(***************************************************************************)
(* Model of torchdrug/core/logger.py: LoggingLogger, WandbLogger and       *)
(* AimLogger.                                                              *)
(*                                                                         *)
(* Python strings are sequences of one-character strings, a dict is the    *)
(* sequence of its items in insertion order (keys distinct), and a raised  *)
(* exception ends the call at the statement that raised it, keeping the    *)
(* effects of the statements before it.                                    *)
(***************************************************************************)
EXTENDS Integers, Sequences, FiniteSets, TLC

VARIABLES wandbInstalled, aimInstalled, wandbRun, wandbRuns, aimRuns,
          loggers, finishes, steps, call

vars == <<wandbInstalled, aimInstalled, wandbRun, wandbRuns, aimRuns,
          loggers, finishes, steps, call>>

----------------------------------------------------------------------------
(* Bounds of the model.                                                    *)

\* The constructions, wandb.finish() calls and calls of log and log_config of
\* a run of the program, plus the entries of the dicts passed to these calls.
MaxSteps == 4

----------------------------------------------------------------------------
(* Python str: comparison, suffix test, split, join.                       *)

\* ord(c) for the characters the model uses.
Ord(c) ==
    CASE c = " " -> 32 [] c = "'" -> 39 [] c = "+" -> 43 [] c = "," -> 44
      [] c = "." -> 46 [] c = "/" -> 47
      [] c = "0" -> 48 [] c = "1" -> 49 [] c = "2" -> 50 [] c = "3" -> 51
      [] c = "4" -> 52 [] c = "5" -> 53 [] c = "6" -> 54 [] c = "7" -> 55
      [] c = "8" -> 56 [] c = "9" -> 57 [] c = ":" -> 58
      [] c = "_" -> 95
      [] c = "a" -> 97 [] c = "b" -> 98 [] c = "c" -> 99 [] c = "d" -> 100
      [] c = "e" -> 101 [] c = "g" -> 103 [] c = "h" -> 104 [] c = "i" -> 105
      [] c = "l" -> 108 [] c = "m" -> 109 [] c = "n" -> 110 [] c = "o" -> 111
      [] c = "p" -> 112 [] c = "r" -> 114 [] c = "s" -> 115 [] c = "t" -> 116
      [] c = "u" -> 117 [] c = "v" -> 118 [] c = "z" -> 122
      [] c = "{" -> 123 [] c = "}" -> 125

\* a < b on str: lexicographic by code point, a proper prefix is smaller.
RECURSIVE StrLess(_, _)
StrLess(a, b) ==
    IF b = <<>> THEN FALSE
    ELSE IF a = <<>> THEN TRUE
    ELSE IF Head(a) = Head(b) THEN StrLess(Tail(a), Tail(b))
    ELSE Ord(Head(a)) < Ord(Head(b))

\* s.endswith(suffix)
EndsWith(s, suffix) ==
    /\ Len(suffix) <= Len(s)
    /\ SubSeq(s, Len(s) - Len(suffix) + 1, Len(s)) = suffix

\* s.split("/"): the list of the segments between the slashes.
RECURSIVE SplitFrom(_, _)
SplitFrom(s, cur) ==
    IF s = <<>> THEN <<cur>>
    ELSE IF Head(s) = "/" THEN <<cur>> \o SplitFrom(Tail(s), <<>>)
    ELSE SplitFrom(Tail(s), Append(cur, Head(s)))

Split(s) == SplitFrom(s, <<>>)

\* sorted(keys): insertion of each key into the sorted list of the rest.
RECURSIVE InsertSorted(_, _)
InsertSorted(k, s) ==
    IF s = <<>> THEN <<k>>
    ELSE IF StrLess(k, Head(s)) THEN <<k>> \o s
    ELSE <<Head(s)>> \o InsertSorted(k, Tail(s))

RECURSIVE Sorted(_)
Sorted(s) ==
    IF s = <<>> THEN <<>> ELSE InsertSorted(Head(s), Sorted(Tail(s)))

----------------------------------------------------------------------------
(* Python dict as the sequence of its items [k, v] in insertion order.     *)

Keys(d) == [i \in 1..Len(d) |-> d[i].k]

KeySet(d) == {d[i].k : i \in 1..Len(d)}

HasKey(d, k) == \E i \in 1..Len(d) : d[i].k = k

\* d[k]
Get(d, k) == d[CHOOSE i \in 1..Len(d) : d[i].k = k].v

\* d[k] = v: replaces the value of an existing key in place, else appends.
SetItem(d, k, v) ==
    IF HasKey(d, k)
    THEN [i \in 1..Len(d) |-> IF d[i].k = k THEN [k |-> k, v |-> v] ELSE d[i]]
    ELSE Append(d, [k |-> k, v |-> v])

----------------------------------------------------------------------------
(* Metric values and "%g" formatting.                                      *)
(* A value is a Python float, a 0-d tensor (it has __float__ and .item())  *)
(* or a str (not a number); n is its numeric value, a natural number.      *)

Float(n) == [kind |-> "float", n |-> n]
Tensor(n) == [kind |-> "tensor", n |-> n]
Str == [kind |-> "str", n |-> 0]

IsNumber(v) == v.kind \in {"float", "tensor"}

DigitChars == <<"0", "1", "2", "3", "4", "5", "6", "7", "8", "9">>

RECURSIVE Digits(_)
Digits(n) ==
    IF n < 10 THEN <<DigitChars[n + 1]>>
    ELSE Append(Digits(n \div 10), DigitChars[(n % 10) + 1])

RECURSIVE Pow10(_)
Pow10(e) == IF e = 0 THEN 1 ELSE 10 * Pow10(e - 1)

RECURSIVE StripZeros(_)
StripZeros(s) ==
    IF s # <<>> /\ s[Len(s)] = "0" THEN StripZeros(SubSeq(s, 1, Len(s) - 1))
    ELSE s

\* "%g" of a natural number n: six significant digits, ties to even; fixed
\* notation below 10^6, else d.ddddde+XX; trailing zeros removed.
FormatGNat(n) ==
    LET d == Len(Digits(n)) IN
    IF d <= 6 THEN Digits(n)
    ELSE LET unit == Pow10(d - 6)
             q    == n \div unit
             r    == n % unit
             up   == (2 * r > unit) \/ (2 * r = unit /\ q % 2 = 1)
             m0   == IF up THEN q + 1 ELSE q
             over == m0 = Pow10(6)
             m    == IF over THEN Pow10(5) ELSE m0
             e    == IF over THEN d ELSE d - 1
             md   == Digits(m)
             frac == StripZeros(Tail(md))
             es   == IF e < 10 THEN <<"0">> \o Digits(e) ELSE Digits(e)
         IN  <<Head(md)>> \o (IF frac = <<>> THEN <<>> ELSE <<".">> \o frac)
                 \o <<"e", "+">> \o es

\* "%g" % v: raises TypeError unless v is a real number.
FormatG(v) ==
    IF IsNumber(v) THEN [exc |-> "none", text |-> FormatGNat(v.n)]
    ELSE [exc |-> "TypeError", text |-> <<>>]

Average == <<"a", "v", "e", "r", "a", "g", "e", " ">>

\* "average %s: %g" % (k, v) and "%s: %g" % (k, v)
FormatMetric(average, k, v) ==
    LET g == FormatG(v) IN
    [exc |-> g.exc,
     text |-> IF g.exc = "none"
              THEN (IF average THEN Average ELSE <<>>) \o k \o <<":", " ">> \o g.text
              ELSE <<>>]

\* pprint.pformat(config) of a flat dict of int values that fits one line:
\* keys in sorted order, each as its repr.
RECURSIVE PformatItems(_, _)
PformatItems(keys, config) ==
    IF keys = <<>> THEN <<>>
    ELSE <<"'">> \o Head(keys) \o <<"'", ":", " ">> \o Digits(Get(config, Head(keys)))
         \o (IF Tail(keys) = <<>> THEN <<>> ELSE <<",", " ">>)
         \o PformatItems(Tail(keys), config)

Pformat(config) == <<"{">> \o PformatItems(Sorted(Keys(config)), config) \o <<"}">>

----------------------------------------------------------------------------
(* torchdrug.utils.pretty: the two divider lines.                          *)

PrettySeparator == <<"pretty.separator">>
PrettyLine == <<"pretty.line">>

----------------------------------------------------------------------------
(* LoggingLogger                                                           *)

Batch == <<"b", "a", "t", "c", "h">>
Epoch == <<"e", "p", "o", "c", "h">>
Train == <<"t", "r", "a", "i", "n">>
Valid == <<"v", "a", "l", "i", "d">>
Test == <<"t", "e", "s", "t">>
TrainBatch == Train \o <<"/">> \o Batch
TrainEpoch == Train \o <<"/">> \o Epoch
ValidEpoch == Valid \o <<"/">> \o Epoch
TestEpoch == Test \o <<"/">> \o Epoch

\* for k in keys: self.logger.warning(fmt % (k, record[k]))
\* The lines written, and the exception that ended the loop.
RECURSIVE LogMetrics(_, _, _)
LogMetrics(keys, record, average) ==
    IF keys = <<>> THEN [exc |-> "none", lines |-> <<>>]
    ELSE LET m == FormatMetric(average, Head(keys), Get(record, Head(keys))) IN
         IF m.exc # "none" THEN [exc |-> m.exc, lines |-> <<>>]
         ELSE LET rest == LogMetrics(Tail(keys), record, average) IN
              [exc |-> rest.exc, lines |-> <<m.text>> \o rest.lines]

LogDividerBySegment(category) ==
    IF Split(category)[Len(Split(category))] = Batch THEN <<PrettySeparator>>
    ELSE IF Split(category)[Len(Split(category))] = Epoch THEN <<PrettyLine>>
    ELSE <<>>

\* The divider of LoggingLogger.log.
LogDivider(category) ==
    IF EndsWith(category, Batch) THEN <<PrettySeparator>>
    ELSE IF EndsWith(category, Epoch) THEN <<PrettyLine>>
    ELSE <<>>

LogKeysUnsorted(record) == Keys(record)

\* The order in which LoggingLogger.log visits the metrics.
LogKeys(record) == Sorted(Keys(record))

LogAverageEveryEpoch(category) == EndsWith(category, Epoch)

\* Whether LoggingLogger.log writes the metrics with "average".
LogAverage(category) == category = TrainEpoch

\* LoggingLogger.log(record, step_id, category): the lines written to the
\* logging module, the exception raised, if any, and the dict the caller
\* passed as it is when the call ends.
LoggingLog(record, step_id, category) ==
    LET m == LogMetrics(LogKeys(record), record, LogAverage(category)) IN
    [exc |-> m.exc, lines |-> LogDivider(category) \o m.lines, arg |-> record]

\* LoggingLogger.log_config(config)
LoggingLogConfig(config) == [exc |-> "none", lines |-> <<Pformat(config)>>]

----------------------------------------------------------------------------
(* WandbLogger                                                             *)

PyInt(n) == [kind |-> "int", n |-> n]

\* {"%s/%s" % (category, k): v for k, v in record.items()}
RECURSIVE Namespaced(_, _)
Namespaced(category, record) ==
    IF record = <<>> THEN <<>>
    ELSE SetItem(Namespaced(category, SubSeq(record, 1, Len(record) - 1)),
                 category \o <<"/">> \o record[Len(record)].k,
                 record[Len(record)].v)

\* category.split("/")[-1]
StepName(category) == Split(category)[Len(Split(category))]

WandbRecordFlat(record, step_id, category) ==
    SetItem(record, StepName(category), PyInt(step_id))

\* The dict WandbLogger.log passes to self.run.log.
WandbRecord(record, step_id, category) ==
    SetItem(Namespaced(category, record), StepName(category), PyInt(step_id))

WandbSubmitFirst(c, record, step_id, category) ==
    [exc |-> c.exc, lines |-> c.lines, arg |-> c.arg,
     logged |-> <<WandbRecord(record, step_id, category)>>]

WandbSubmitInPlace(c, record, step_id, category) ==
    IF c.exc # "none"
    THEN [exc |-> c.exc, lines |-> c.lines, arg |-> c.arg, logged |-> <<>>]
    ELSE [exc |-> "none", lines |-> c.lines,
          arg |-> SetItem(c.arg, StepName(category), PyInt(step_id)),
          logged |-> <<WandbRecord(record, step_id, category)>>]

\* The statements of WandbLogger.log after the super call, whose outcome is c.
WandbSubmit(c, record, step_id, category) ==
    IF c.exc # "none"
    THEN [exc |-> c.exc, lines |-> c.lines, arg |-> c.arg, logged |-> <<>>]
    ELSE [exc |-> "none", lines |-> c.lines, arg |-> c.arg,
          logged |-> <<WandbRecord(record, step_id, category)>>]

\* WandbLogger.log(record, step_id, category): as LoggingLog, and the dicts
\* passed to self.run.log.
WandbLog(record, step_id, category) ==
    WandbSubmit(LoggingLog(record, step_id, category), record, step_id, category)

\* self.run.config.update(confg_dict)
RECURSIVE Update(_, _)
Update(d, other) ==
    IF other = <<>> THEN d
    ELSE Update(SetItem(d, Head(other).k, Head(other).v), Tail(other))

\* WandbLogger.log_config(confg_dict): the lines written and the run's config.
WandbLogConfig(runConfig, config) ==
    [exc |-> "none", lines |-> LoggingLogConfig(config).lines,
     config |-> Update(runConfig, config)]

\* The define_metric calls of WandbLogger.__init__.
DefinedMetrics ==
    << [pattern |-> TrainBatch \o <<"/", "*">>, step_metric |-> Batch,
        summary |-> "none"] >> \o
    [i \in 1..3 |->
        [pattern |-> <<Train, Valid, Test>>[i] \o <<"/">> \o Epoch \o <<"/", "*">>,
         step_metric |-> Epoch, summary |-> "default"]]

\* The run wandb.init returns; born is the number of wandb.finish() calls
\* before it, by is who started it.
NewWandbRun(by, born) ==
    [by |-> by, born |-> born, defined |-> <<>>, history |-> <<>>, config |-> <<>>]

----------------------------------------------------------------------------
(* AimLogger                                                               *)

Dict(items) == [kind |-> "dict", items |-> items]

NewAimRun == [tracked |-> <<>>, attrs |-> <<>>]

\* The context dict of a track call.
AimContext(category) ==
    LET context_type == Split(category)[1]
        context_specific == Split(category)[2]
    IN  IF category = TrainEpoch
        THEN [k |-> context_type \o <<"_", "a", "v", "e", "r", "a", "g", "e">>,
              v |-> context_specific]
        ELSE [k |-> context_type, v |-> context_specific]

\* for metric_name in keys: self.aim_run.track(record[metric_name],
\*     step=step_id, name=metric_name, context=...)
RECURSIVE AimTrack(_, _, _, _, _)
AimTrack(run, keys, record, step_id, category) ==
    IF keys = <<>> THEN [exc |-> "none", run |-> run]
    ELSE AimTrack([run EXCEPT !.tracked =
                       Append(@, [value |-> Get(record, Head(keys)),
                                  step |-> step_id,
                                  name |-> Head(keys),
                                  context |-> AimContext(category)])],
                  Tail(keys), record, step_id, category)

\* for metric_name in keys: self.aim_run[metric_name] = record[metric_name].item()
\* A value without .item() raises AttributeError.
RECURSIVE AimSetItems(_, _, _)
AimSetItems(run, keys, record) ==
    IF keys = <<>> THEN [exc |-> "none", run |-> run]
    ELSE LET v == Get(record, Head(keys)) IN
         IF v.kind # "tensor" THEN [exc |-> "AttributeError", run |-> run]
         ELSE AimSetItems([run EXCEPT !.attrs = SetItem(@, Head(keys), Float(v.n))],
                          Tail(keys), record)

\* The branch of AimLogger.log on the category.
AimForward(run, record, step_id, category) ==
    IF category = ValidEpoch
    THEN AimSetItems(run, Sorted(Keys(record)), record)
    ELSE AimTrack(run, Sorted(Keys(record)), record, step_id, category)

AimStarted == <<"_________Started Aim Logging_________", "category">>
AimEnded == <<"_________Ended Aim Logging_________">>

\* The outcome of AimLogger.log, from the outcome c of the super call and
\* the outcome f of the branch on the category.
AimOutcome(c, f) ==
    [exc |-> f.exc, lines |-> c.lines, arg |-> c.arg,
     stdout |-> AimStarted \o <<"record", "repo">> \o
                (IF f.exc = "none" THEN AimEnded ELSE <<>>),
     run |-> f.run]

\* The statements of AimLogger.log after the super call, whose outcome is c.
AimAfterSuper(c, run, record, step_id, category) ==
    IF c.exc # "none"
    THEN [exc |-> c.exc, lines |-> c.lines, arg |-> c.arg, stdout |-> <<>>,
          run |-> run]
    ELSE IF Len(Split(category)) # 2
    THEN [exc |-> "ValueError", lines |-> c.lines, arg |-> c.arg,
          stdout |-> AimStarted, run |-> run]
    ELSE AimOutcome(c, AimForward(run, record, step_id, category))

\* AimLogger.log(record, step_id, category): as LoggingLog, and the prints
\* and the Aim run after the call.
AimLog(run, record, step_id, category) ==
    AimAfterSuper(LoggingLog(record, step_id, category), run, record, step_id,
                  category)

\* AimLogger.log_config(confg_dict)
AimLogConfig(run, config) ==
    [exc |-> "none", lines |-> <<>>,
     run |-> [run EXCEPT !.attrs = SetItem(@, <<"c", "o", "n", "f", "i", "g">>,
                                           Dict(config))]]

----------------------------------------------------------------------------
(* The arguments the callers pass.                                         *)

Acc == <<"a", "c", "c">>
Loss == <<"l", "o", "s", "s">>

Names == {Acc, Loss, Batch}

Values == {Float(3), Tensor(1234567), Str}

Items == {[k |-> k, v |-> v] : k \in Names, v \in Values}

\* The dicts of n metrics, in every insertion order.
RecordsOfLen ==
    [n \in 0..Cardinality(Names) |->
        {r \in [1..n -> Items] : \A i, j \in 1..n : r[i].k = r[j].k => i = j}]

\* The dicts of at most n metrics.
Records(n) == UNION {RecordsOfLen[m] : m \in 0..n}

\* The largest dict that a call may still pass.
Room(n) ==
    IF MaxSteps - n - 1 > Cardinality(Names) THEN Cardinality(Names)
    ELSE MaxSteps - n - 1

TrainMinibatch == Train \o <<"/", "m", "i", "n", "i">> \o Batch

StandardCategories == {TrainBatch, TrainEpoch, ValidEpoch, TestEpoch}

Categories ==
    StandardCategories \cup
        {TrainMinibatch, <<"d", "e", "b", "u", "g">>}

StepIds == {0, 3}

Lr == <<"l", "r">>
BatchSize == Batch \o <<"_", "s", "i", "z", "e">>

Configs ==
    {<<[k |-> Lr, v |-> 1]>>,
     <<[k |-> Lr, v |-> 1], [k |-> BatchSize, v |-> 32]>>}

----------------------------------------------------------------------------
(* State                                                                   *)
(*   wandbInstalled, aimInstalled  whether `import wandb`, `import aim`    *)
(*                                 succeed                                 *)
(*   wandbRun    wandb.run: 0 for None, else an index of wandbRuns         *)
(*   wandbRuns   the runs wandb.init has returned                          *)
(*   aimRuns     the runs aim.Run has returned                             *)
(*   loggers     the logger objects constructed                            *)
(*   finishes    the number of wandb.finish() calls                        *)
(*   steps       the number of constructions, wandb.finish() calls and     *)
(*               log and log_config calls so far, plus the number of       *)
(*               entries of the dicts passed to these calls                *)
(*   call        the most recent call: its arguments, what it wrote and    *)
(*               what it raised                                            *)

NoCall ==
    [op |-> "none", self |-> 0, record |-> <<>>, step_id |-> 0,
     category |-> <<>>, config |-> <<>>, exc |-> "none", lines |-> <<>>,
     stdout |-> <<>>, arg |-> <<>>, warned |-> FALSE, inited |-> FALSE]

Init ==
    /\ wandbInstalled \in BOOLEAN
    /\ aimInstalled \in BOOLEAN
    /\ \E active \in BOOLEAN :
          IF wandbInstalled /\ active
          THEN wandbRun = 1 /\ wandbRuns = <<NewWandbRun("user", 0)>>
          ELSE wandbRun = 0 /\ wandbRuns = <<>>
    /\ aimRuns = <<>>
    /\ loggers = <<>>
    /\ finishes = 0
    /\ steps = 0
    /\ call = NoCall

\* LoggingLogger()
NewLoggingLogger ==
    /\ steps < MaxSteps
    /\ steps' = steps + 1
    /\ loggers' = Append(loggers, [cls |-> "LoggingLogger", run |-> 0, born |-> finishes])
    /\ call' = [NoCall EXCEPT !.op = "LoggingLogger.__init__", !.self = Len(loggers) + 1]
    /\ UNCHANGED <<wandbInstalled, aimInstalled, wandbRun, wandbRuns, aimRuns,
                   finishes>>

\* self.run.define_metric(...) four times.
DefineMetrics(run) == [run EXCEPT !.defined = @ \o DefinedMetrics]

NewWandbLoggerLazyImport ==
    /\ steps < MaxSteps
    /\ steps' = steps + 1
    /\ loggers' = Append(loggers, [cls |-> "WandbLogger", run |-> wandbRun,
                                   born |-> finishes])
    /\ call' = [NoCall EXCEPT !.op = "WandbLogger.__init__",
                              !.self = Len(loggers) + 1]
    /\ UNCHANGED <<wandbInstalled, aimInstalled, wandbRun, wandbRuns, aimRuns,
                   finishes>>

NewWandbLoggerAlwaysInit ==
    /\ steps < MaxSteps
    /\ steps' = steps + 1
    /\ IF ~wandbInstalled
       THEN /\ call' = [NoCall EXCEPT !.op = "WandbLogger.__init__",
                                      !.exc = "ModuleNotFoundError"]
            /\ UNCHANGED <<wandbRun, wandbRuns, loggers>>
       ELSE /\ wandbRuns' = Append(wandbRuns,
                                   DefineMetrics(NewWandbRun("logger", finishes)))
            /\ wandbRun' = Len(wandbRuns) + 1
            /\ loggers' = Append(loggers, [cls |-> "WandbLogger",
                                           run |-> Len(wandbRuns) + 1,
                                           born |-> finishes])
            /\ call' = [NoCall EXCEPT !.op = "WandbLogger.__init__",
                                      !.self = Len(loggers) + 1, !.inited = TRUE]
    /\ UNCHANGED <<wandbInstalled, aimInstalled, aimRuns, finishes>>

\* WandbLogger(): the import fails, or the active run is reused with a
\* warning, or wandb.init starts a run and makes it wandb.run.
NewWandbLogger ==
    /\ steps < MaxSteps
    /\ steps' = steps + 1
    /\ IF ~wandbInstalled
       THEN /\ call' = [NoCall EXCEPT !.op = "WandbLogger.__init__",
                                      !.exc = "ModuleNotFoundError"]
            /\ UNCHANGED <<wandbRun, wandbRuns, loggers>>
       ELSE IF wandbRun # 0
       THEN /\ wandbRuns' = [wandbRuns EXCEPT ![wandbRun] = DefineMetrics(@)]
            /\ loggers' = Append(loggers, [cls |-> "WandbLogger", run |-> wandbRun,
                                           born |-> finishes])
            /\ call' = [NoCall EXCEPT !.op = "WandbLogger.__init__",
                                      !.self = Len(loggers) + 1, !.warned = TRUE]
            /\ UNCHANGED wandbRun
       ELSE /\ wandbRuns' = Append(wandbRuns,
                                   DefineMetrics(NewWandbRun("logger", finishes)))
            /\ wandbRun' = Len(wandbRuns) + 1
            /\ loggers' = Append(loggers, [cls |-> "WandbLogger",
                                           run |-> Len(wandbRuns) + 1,
                                           born |-> finishes])
            /\ call' = [NoCall EXCEPT !.op = "WandbLogger.__init__",
                                      !.self = Len(loggers) + 1, !.inited = TRUE]
    /\ UNCHANGED <<wandbInstalled, aimInstalled, aimRuns, finishes>>

\* wandb.finish(): ends the active run.
WandbFinish ==
    /\ wandbRun # 0
    /\ steps < MaxSteps
    /\ steps' = steps + 1
    /\ wandbRun' = 0
    /\ finishes' = finishes + 1
    /\ call' = [NoCall EXCEPT !.op = "wandb.finish"]
    /\ UNCHANGED <<wandbInstalled, aimInstalled, wandbRuns, aimRuns, loggers>>

\* AimLogger(): the import fails, or aim.Run starts a run.
NewAimLogger ==
    /\ steps < MaxSteps
    /\ steps' = steps + 1
    /\ IF ~aimInstalled
       THEN /\ call' = [NoCall EXCEPT !.op = "AimLogger.__init__",
                                      !.exc = "ModuleNotFoundError"]
            /\ UNCHANGED <<aimRuns, loggers>>
       ELSE /\ aimRuns' = Append(aimRuns, NewAimRun)
            /\ loggers' = Append(loggers, [cls |-> "AimLogger", run |-> Len(aimRuns) + 1,
                                           born |-> finishes])
            /\ call' = [NoCall EXCEPT !.op = "AimLogger.__init__",
                                      !.self = Len(loggers) + 1, !.inited = TRUE]
    /\ UNCHANGED <<wandbInstalled, aimInstalled, wandbRun, wandbRuns, finishes>>

LogCall(i, record, step_id, category, r) ==
    [NoCall EXCEPT !.op = "log", !.self = i, !.record = record,
                   !.step_id = step_id, !.category = category,
                   !.exc = r.exc, !.lines = r.lines, !.arg = r.arg]

ConfigCall(i, config, r) ==
    [NoCall EXCEPT !.op = "log_config", !.self = i, !.config = config,
                   !.exc = r.exc, !.lines = r.lines]

\* logger.log(record, step_id, category) on a LoggingLogger
LoggingLoggerLog ==
    /\ \E i \in {j \in 1..Len(loggers) : loggers[j].cls = "LoggingLogger"},
          record \in Records(Room(steps)), step_id \in StepIds,
          category \in Categories :
        /\ steps' = steps + 1 + Len(record)
        /\ call' = LogCall(i, record, step_id, category,
                           LoggingLog(record, step_id, category))
        /\ UNCHANGED <<wandbInstalled, aimInstalled, wandbRun, wandbRuns, aimRuns,
                       loggers, finishes>>

\* logger.log_config(config) on a LoggingLogger
LoggingLoggerLogConfig ==
    /\ \E i \in {j \in 1..Len(loggers) : loggers[j].cls = "LoggingLogger"},
          config \in {c \in Configs : steps + 1 + Len(c) <= MaxSteps} :
        /\ steps' = steps + 1 + Len(config)
        /\ call' = ConfigCall(i, config, LoggingLogConfig(config))
        /\ UNCHANGED <<wandbInstalled, aimInstalled, wandbRun, wandbRuns, aimRuns,
                       loggers, finishes>>

\* The call r of WandbLogger.log on logger i takes effect.
WandbLogged(i, record, step_id, category, r) ==
    /\ call' = LogCall(i, record, step_id, category, r)
    /\ wandbRuns' = [wandbRuns EXCEPT ![loggers[i].run].history = @ \o r.logged]

\* The call r of WandbLogger.log_config on logger i takes effect.
WandbConfigured(i, config, r) ==
    /\ call' = ConfigCall(i, config, r)
    /\ wandbRuns' = [wandbRuns EXCEPT ![loggers[i].run].config = r.config]

\* The call r of AimLogger.log on logger i takes effect.
AimLogged(i, record, step_id, category, r) ==
    /\ call' = [LogCall(i, record, step_id, category, r) EXCEPT !.stdout = r.stdout]
    /\ aimRuns' = [aimRuns EXCEPT ![loggers[i].run] = r.run]

\* The call r of AimLogger.log_config on logger i takes effect.
AimConfigured(i, config, r) ==
    /\ call' = ConfigCall(i, config, r)
    /\ aimRuns' = [aimRuns EXCEPT ![loggers[i].run] = r.run]

\* logger.log(record, step_id, category) on a WandbLogger
WandbLoggerLog ==
    /\ \E i \in {j \in 1..Len(loggers) : loggers[j].cls = "WandbLogger"},
          record \in Records(Room(steps)), step_id \in StepIds,
          category \in Categories :
        /\ steps' = steps + 1 + Len(record)
        /\ WandbLogged(i, record, step_id, category,
                       WandbLog(record, step_id, category))
        /\ UNCHANGED <<wandbInstalled, aimInstalled, wandbRun, aimRuns, loggers,
                       finishes>>

\* logger.log_config(config) on a WandbLogger
WandbLoggerLogConfig ==
    /\ \E i \in {j \in 1..Len(loggers) : loggers[j].cls = "WandbLogger"},
          config \in {c \in Configs : steps + 1 + Len(c) <= MaxSteps} :
        /\ steps' = steps + 1 + Len(config)
        /\ WandbConfigured(i, config,
                           WandbLogConfig(wandbRuns[loggers[i].run].config, config))
        /\ UNCHANGED <<wandbInstalled, aimInstalled, wandbRun, aimRuns, loggers,
                       finishes>>

\* logger.log(record, step_id, category) on an AimLogger
AimLoggerLog ==
    /\ \E i \in {j \in 1..Len(loggers) : loggers[j].cls = "AimLogger"},
          record \in Records(Room(steps)), step_id \in StepIds,
          category \in Categories :
        /\ steps' = steps + 1 + Len(record)
        /\ AimLogged(i, record, step_id, category,
                     AimLog(aimRuns[loggers[i].run], record, step_id, category))
        /\ UNCHANGED <<wandbInstalled, aimInstalled, wandbRun, wandbRuns, loggers,
                       finishes>>

\* logger.log_config(config) on an AimLogger
AimLoggerLogConfig ==
    /\ \E i \in {j \in 1..Len(loggers) : loggers[j].cls = "AimLogger"},
          config \in {c \in Configs : steps + 1 + Len(c) <= MaxSteps} :
        /\ steps' = steps + 1 + Len(config)
        /\ AimConfigured(i, config, AimLogConfig(aimRuns[loggers[i].run], config))
        /\ UNCHANGED <<wandbInstalled, aimInstalled, wandbRun, wandbRuns, loggers,
                       finishes>>

Next ==
    \/ NewLoggingLogger
    \/ NewWandbLogger
    \/ NewAimLogger
    \/ WandbFinish
    \/ LoggingLoggerLog
    \/ LoggingLoggerLogConfig
    \/ WandbLoggerLog
    \/ WandbLoggerLogConfig
    \/ AimLoggerLog
    \/ AimLoggerLogConfig

Spec == Init /\ [][Next]_vars

----------------------------------------------------------------------------
(* Properties                                                              *)

\* The class of the logger of the most recent call.
Cls == IF call.self \in 1..Len(loggers) THEN loggers[call.self].cls ELSE "none"

StartsWith(s, prefix) ==
    /\ Len(prefix) <= Len(s)
    /\ SubSeq(s, 1, Len(prefix)) = prefix

IsDivider(line) == line = PrettySeparator \/ line = PrettyLine

\* The lines of the most recent call that are not dividers.
MetricLines == SelectSeq(call.lines, LAMBDA line : ~IsDivider(line))

Dividers == SelectSeq(call.lines, IsDivider)

\* All values of the dict are numbers.
Numeric(record) == \A i \in 1..Len(record) : IsNumber(record[i].v)

\* The metric name a line shows: the text before the first colon, without
\* the "average " in front.
LineBody(line) ==
    IF StartsWith(line, Average) THEN SubSeq(line, Len(Average) + 1, Len(line))
    ELSE line

Colon(body) ==
    CHOOSE i \in 1..Len(body) :
        body[i] = ":" /\ \A j \in 1..(i - 1) : body[j] # ":"

LineName(line) == SubSeq(LineBody(line), 1, Colon(LineBody(line)) - 1)

\* The text a line shows after "name: ".
LineValue(line) ==
    SubSeq(LineBody(line), Colon(LineBody(line)) + 2, Len(LineBody(line)))

\* A step of the program (not a stuttering step) that is a call of log.
LogStep == steps' # steps /\ call'.op = "log"

\* C1: a log call with a record of numbers writes exactly one metric line
\* per key of the record, showing the key and its value, and the lines are
\* in ascending order of the metric names.
C1_OneLinePerKeySorted ==
    (call.op = "log" /\ Numeric(call.record)) =>
        /\ Len(MetricLines) = Len(call.record)
        /\ {LineName(MetricLines[i]) : i \in 1..Len(MetricLines)} = KeySet(call.record)
        /\ \A i \in 1..Len(MetricLines) :
              LineValue(MetricLines[i]) =
                  FormatGNat(Get(call.record, LineName(MetricLines[i])).n)
        /\ \A i \in 1..(Len(MetricLines) - 1) :
              StrLess(LineName(MetricLines[i]), LineName(MetricLines[i + 1]))

\* A log call has written the metrics of a record that was built in
\* descending order of its keys.
C1_Witness ==
    /\ call.op = "log"
    /\ Cls = "LoggingLogger"
    /\ Numeric(call.record)
    /\ Len(call.record) = 2
    /\ StrLess(call.record[2].k, call.record[1].k)
    /\ Len(MetricLines) = 2

\* C2: the metric lines of a log call start with "average " when the
\* category is exactly train/epoch, and none does for any other category.
C2_AverageOnlyTrainEpoch ==
    call.op = "log" =>
        \A i \in 1..Len(MetricLines) :
            StartsWith(MetricLines[i], Average) <=> (call.category = TrainEpoch)

\* A train/epoch call has written a metric line.
C2_Witness ==
    /\ call.op = "log"
    /\ call.category = TrainEpoch
    /\ Len(MetricLines) >= 1
    /\ StartsWith(MetricLines[1], Average)

\* C3: a log call whose category ends in "batch" writes the separator, one
\* whose category ends in "epoch" writes the line divider, which is a
\* different line; it is the only divider of the call and its first line;
\* a call whose category ends in neither writes no divider.
C3_DividerFirst ==
    /\ PrettySeparator # PrettyLine
    /\ call.op = "log" =>
          IF EndsWith(call.category, Batch)
          THEN Dividers = <<PrettySeparator>> /\ call.lines[1] = PrettySeparator
          ELSE IF EndsWith(call.category, Epoch)
          THEN Dividers = <<PrettyLine>> /\ call.lines[1] = PrettyLine
          ELSE Dividers = <<>>

\* A call whose category ends in "batch", though its last segment is not
\* "batch", has written the separator and then a metric line.
C3_Witness ==
    /\ call.op = "log"
    /\ call.category = TrainMinibatch
    /\ Len(call.lines) >= 2
    /\ call.lines[1] = PrettySeparator

\* C4: when an SDK is not installed, constructing its logger raises
\* ModuleNotFoundError; no logger of that class exists, no session of that
\* SDK was created by a logger and no metric defined, and no log or
\* log_config call raises ModuleNotFoundError.
C4_MissingSdkFailsAtConstruction ==
    /\ ~wandbInstalled =>
          /\ wandbRuns = <<>>
          /\ \A i \in 1..Len(loggers) : loggers[i].cls # "WandbLogger"
          /\ call.op = "WandbLogger.__init__" => call.exc = "ModuleNotFoundError"
    /\ ~aimInstalled =>
          /\ aimRuns = <<>>
          /\ \A i \in 1..Len(loggers) : loggers[i].cls # "AimLogger"
          /\ call.op = "AimLogger.__init__" => call.exc = "ModuleNotFoundError"
    /\ call.op \in {"log", "log_config"} => call.exc # "ModuleNotFoundError"

\* Constructing a WandbLogger without wandb has raised, after another logger
\* was constructed.
C4_Witness ==
    /\ ~wandbInstalled
    /\ call.op = "WandbLogger.__init__"
    /\ call.exc = "ModuleNotFoundError"
    /\ Len(loggers) >= 1

WandbLoggers == {i \in 1..Len(loggers) : loggers[i].cls = "WandbLogger"}

\* A step that constructs a WandbLogger.
WandbInitStep ==
    /\ steps' # steps
    /\ call'.op = "WandbLogger.__init__"
    /\ call'.exc = "none"

\* C5: constructing a WandbLogger while a run is active warns, starts no
\* run and holds the active run; constructing one while no run is active
\* starts exactly one run, without a warning, and holds it.  So the loggers
\* constructed between two wandb.finish() calls all hold the same run, and
\* at most one of the runs was started by them.
C5_ReuseActiveRun ==
    /\ [][WandbInitStep =>
            /\ Len(loggers') = Len(loggers) + 1
            /\ IF wandbRun # 0
               THEN /\ call'.warned
                    /\ Len(wandbRuns') = Len(wandbRuns)
                    /\ loggers'[Len(loggers')].run = wandbRun
                    /\ wandbRun' = wandbRun
               ELSE /\ ~call'.warned
                    /\ Len(wandbRuns') = Len(wandbRuns) + 1
                    /\ loggers'[Len(loggers')].run = Len(wandbRuns')
                    /\ wandbRun' = Len(wandbRuns')]_vars
    /\ [](/\ \A i, j \in WandbLoggers :
                loggers[i].born = loggers[j].born => loggers[i].run = loggers[j].run
          /\ \A r, q \in 1..Len(wandbRuns) :
                (/\ wandbRuns[r].by = "logger"
                 /\ wandbRuns[q].by = "logger"
                 /\ wandbRuns[r].born = wandbRuns[q].born) => r = q)

\* A second WandbLogger was constructed while the run of the first was
\* active: it warned and holds that run.
C5_Witness ==
    /\ Cardinality(WandbLoggers) = 2
    /\ call.op = "WandbLogger.__init__"
    /\ call.warned
    /\ Len(wandbRuns) = 1
    /\ wandbRuns[1].by = "logger"

\* The history of the run that logger i holds.
History(runs, i) == runs[loggers[i].run].history

\* C6: a WandbLogger.log call with a record of numbers appends exactly one
\* dict to the history of the run; its keys are category/name for each
\* metric, with the metric's value, and the last segment of the category,
\* with step_id; it has one entry more than the record, so the step field
\* and the metrics do not overwrite each other.  For the four categories
\* the step field is "batch" or "epoch", the step metric that the
\* constructor defined for the category.
C6_WandbRecord ==
    [][(/\ LogStep
        /\ loggers[call'.self].cls = "WandbLogger"
        /\ Numeric(call'.record)) =>
          LET old == History(wandbRuns, call'.self)
              new == History(wandbRuns', call'.self)
              rec == new[Len(new)]
              name == Split(call'.category)[Len(Split(call'.category))]
          IN  /\ Len(new) = Len(old) + 1
              /\ SubSeq(new, 1, Len(old)) = old
              /\ Len(rec) = Len(call'.record) + 1
              /\ KeySet(rec) =
                    {call'.category \o <<"/">> \o k : k \in KeySet(call'.record)}
                        \cup {name}
              /\ \A k \in KeySet(call'.record) :
                    Get(rec, call'.category \o <<"/">> \o k) = Get(call'.record, k)
              /\ Get(rec, name) = PyInt(call'.step_id)
              /\ call'.category \in StandardCategories =>
                    /\ name \in {Batch, Epoch}
                    /\ \E d \in 1..Len(wandbRuns'[loggers[call'.self].run].defined) :
                          LET m == wandbRuns'[loggers[call'.self].run].defined[d]
                          IN  /\ m.pattern = call'.category \o <<"/", "*">>
                              /\ m.step_metric = name]_vars

\* A WandbLogger has logged a train/batch record that has a metric named
\* "batch".
C6_Witness ==
    /\ call.op = "log"
    /\ Cls = "WandbLogger"
    /\ call.exc = "none"
    /\ call.category = TrainBatch
    /\ Batch \in KeySet(call.record)
    /\ Len(History(wandbRuns, call.self)) = 1

\* The Aim run of the logger of the most recent call.
AimRunOfCall == aimRuns[loggers[call.self].run]

\* C7: an AimLogger.log call that returns, with one of the four categories,
\* has forwarded every metric of the record to the Aim run together with
\* the step index of the call.
C7_AimForwardsWithStep ==
    (/\ call.op = "log"
     /\ Cls = "AimLogger"
     /\ call.exc = "none"
     /\ call.category \in StandardCategories) =>
        \A k \in KeySet(call.record) :
            \E t \in 1..Len(AimRunOfCall.tracked) :
                /\ AimRunOfCall.tracked[t].name = k
                /\ AimRunOfCall.tracked[t].value = Get(call.record, k)
                /\ AimRunOfCall.tracked[t].step = call.step_id

\* C8: a log or log_config call on a WandbLogger or an AimLogger writes the
\* lines that LoggingLogger writes for the same arguments.
C8_SameConsoleOutput ==
    Cls \in {"WandbLogger", "AimLogger"} =>
        /\ call.op = "log" =>
              call.lines = LoggingLog(call.record, call.step_id, call.category).lines
        /\ call.op = "log_config" =>
              call.lines = LoggingLogConfig(call.config).lines

\* The keys of the record that are smaller than each of its keys whose
\* value is not a number.
KeysBeforeFailure(record) ==
    {k \in KeySet(record) :
        \A b \in KeySet(record) : ~IsNumber(Get(record, b)) => StrLess(k, b)}

\* C9: a log call on a WandbLogger or an AimLogger raises TypeError exactly
\* when a value of the record is not a number; then the runs of both SDKs
\* are as before the call, while the divider and the lines of the metrics
\* sorted before the failing key are written.  A call that changes a run
\* has written all its lines.
C9_ConsoleBeforeForwarding ==
    [][(LogStep /\ loggers[call'.self].cls \in {"WandbLogger", "AimLogger"}) =>
          LET lines == SelectSeq(call'.lines, LAMBDA line : ~IsDivider(line))
          IN  /\ (call'.exc = "TypeError") <=> ~Numeric(call'.record)
              /\ ~Numeric(call'.record) =>
                    /\ wandbRuns' = wandbRuns
                    /\ aimRuns' = aimRuns
                    /\ Len(lines) = Cardinality(KeysBeforeFailure(call'.record))
                    /\ \A i \in 1..Len(lines) :
                          LineName(lines[i]) \in KeysBeforeFailure(call'.record)
                    /\ Len(call'.lines) - Len(lines) =
                          (IF \/ EndsWith(call'.category, Batch)
                              \/ EndsWith(call'.category, Epoch) THEN 1 ELSE 0)
              /\ (wandbRuns' # wandbRuns \/ aimRuns' # aimRuns) =>
                    Len(lines) = Len(call'.record)]_vars

\* A WandbLogger.log call has raised on the greater key of a record, after
\* the divider and the line of the smaller key.
C9_Witness ==
    /\ call.op = "log"
    /\ Cls = "WandbLogger"
    /\ call.exc = "TypeError"
    /\ Len(call.record) = 2
    /\ Len(call.lines) = 2
    /\ History(wandbRuns, call.self) = <<>>

\* C10: after a log call the dict that the caller passed has the keys and
\* values it had before the call.
C10_RecordUnchanged ==
    call.op = "log" => call.arg = call.record

\* A WandbLogger has logged a record and submitted a dict with more entries.
C10_Witness ==
    /\ call.op = "log"
    /\ Cls = "WandbLogger"
    /\ call.exc = "none"
    /\ Len(call.record) = 2
    /\ Len(History(wandbRuns, call.self)) = 1
    /\ Len(History(wandbRuns, call.self)[1]) = 3

====
